---------------------------- MODULE Spec2Model ----------------------------
(***************************************************************************)
(* useVirtualScroller (vue-virtual-scroller): the windowing computation,   *)
(* the held viewport state (scrollTop, containerHeight), the listener      *)
(* registrations made by onMounted / onUnmounted / watch(containerRef),    *)
(* and scrollToIndex.                                                      *)
(*                                                                         *)
(* The scrollable surfaces are DOM elements: each has a scrollTop and a    *)
(* clientHeight, a set of registered listeners, and scroll events that the *)
(* browser queues when the scroll position changes and dispatches later.   *)
(* Pixel quantities are integers.                                          *)
(***************************************************************************)
EXTENDS Integers, Sequences, FiniteSets

\* ------------------------------------------------------------ bounds
MaxItems == 2          \* length of the item list of the lifecycle specification
MaxItemHeight == 2     \* largest itemHeight (px)
MaxOverscan == 2       \* largest overscan
MaxScrollTop == 2      \* scroll range of a surface (px): scrollTop in 0..MaxScrollTop
MaxIndex == 3          \* scrollToIndex is called with index in -1..MaxIndex

Surfaces == {"A", "B"}
Null == "null"
Refs == Surfaces \cup {Null}

Indexes == (-1)..MaxIndex
ScrollTops == 0..MaxScrollTop
\* sizes of a surface in the lifecycle specification: not laid out (0), or
\* as high as the highest item
ClientHeights == {0, MaxItemHeight}

\* inputs of the windowing specification: offsets beyond the end of the
\* list, viewports larger than the list, and the three documented scenarios
WindowOffsets == (0..((MaxItems + 2) * MaxItemHeight)) \cup {400}
WindowHeights == (0..((MaxItems + 1) * MaxItemHeight)) \cup {200, 500}
\* options of the lifecycle specification <<itemHeight, overscan>>: the smallest
\* and the largest
LifeConfigs == { <<1, 0>>, <<MaxItemHeight, MaxOverscan>> }

WindowConfigs ==
    { <<n, h, o>> : n \in 0..(MaxItems + 1), h \in 1..(MaxItemHeight + 1), o \in 0..MaxOverscan }
      \cup { <<100, 20, 1>>, <<5, 20, 2>> }

VARIABLES
    items,            \* the caller's list (a sequence; index i of the code is i + 1 here)
    itemHeight,       \* option itemHeight
    overscan,         \* option overscan
    containerRef,     \* containerRef.value: a surface or Null
    scrollTop,        \* ref scrollTop (held scroll offset)
    containerHeight,  \* ref containerHeight (held viewport size)
    phase,            \* "setup" (useVirtualScroller returned), "mounted", "unmounted"
    watchOld,         \* the value of containerRef the watcher last saw
    elScrollTop,      \* scrollTop of each surface
    elClientHeight,   \* clientHeight of each surface
    scrollListeners,  \* surfaces on which onScroll is registered for 'scroll'
    resizeListener,   \* whether onResize is registered for 'resize' on window
    scrollEvents      \* surfaces with a scroll event queued by the browser

vars == <<items, itemHeight, overscan, containerRef, scrollTop, containerHeight,
          phase, watchOld, elScrollTop, elClientHeight, scrollListeners,
          resizeListener, scrollEvents>>

config == <<items, itemHeight, overscan>>

\* ------------------------------------------------------------ helpers
Max(a, b) == IF a >= b THEN a ELSE b
Min(a, b) == IF a <= b THEN a ELSE b

\* Math.floor(a / b) and Math.ceil(a / b) for b > 0
Floor(a, b) == a \div b
Ceil(a, b) == -((-a) \div b)

\* Array.prototype.slice(start, end)
Slice(arr, start, end) ==
    LET len == Len(arr)
        k == IF start < 0 THEN Max(len + start, 0) ELSE Min(start, len)
        final == IF end < 0 THEN Max(len + end, 0) ELSE Min(end, len)
        count == Max(final - k, 0)
    IN [j \in 1..count |-> arr[k + j]]

\* Array.from({length: n}, (_, i) => i)
ItemList(n) == [k \in 1..n |-> k - 1]

\* ------------------------------------------------------------ computed values
visibleCount == Ceil(containerHeight, itemHeight)

\* (mutation of startIndex: the operands of the subtraction swapped)
startIndexSwapped == Max(0, overscan - Floor(scrollTop, itemHeight))

startIndex == Max(0, Floor(scrollTop, itemHeight) - overscan)

\* (mutation of endIndex: overscan reserved on one side only)
endIndexOneSided == Min(Len(items), startIndex + visibleCount + overscan)

\* (mutation of endIndex: the overscan is not added to the end of the window)
endIndexNoOverscan == Min(Len(items), startIndex + visibleCount)

endIndex == Min(Len(items), startIndex + visibleCount + overscan * 2)

\* (mutation of visibleItems: the slice takes the item at endIndex too)
visibleItemsOneMore == Slice(items, startIndex, endIndex + 1)

visibleItems == Slice(items, startIndex, endIndex)

paddingTop == startIndex * itemHeight

\* (mutation of paddingBottom: the last index instead of the length)
paddingBottomOffByOne == (Len(items) - 1 - endIndex) * itemHeight

paddingBottom == (Len(items) - endIndex) * itemHeight

\* the values returned to the caller
Window ==
    [visibleCount |-> visibleCount, startIndex |-> startIndex, endIndex |-> endIndex,
     paddingTop |-> paddingTop, paddingBottom |-> paddingBottom]

\* the same computed values for scrollTop.value = st and containerHeight.value = ch
WindowAt(st, ch) ==
    LET vc == Ceil(ch, itemHeight)
        si == Max(0, Floor(st, itemHeight) - overscan)
        ei == Min(Len(items), si + vc + overscan * 2)
    IN [visibleCount |-> vc, startIndex |-> si, endIndex |-> ei,
        paddingTop |-> si * itemHeight, paddingBottom |-> (Len(items) - ei) * itemHeight]

\* ------------------------------------------------------------ the surfaces (DOM)
\* element.scrollTop = v: the element clamps v to its scroll range
ElSetScrollTop(v) == Max(0, Min(v, MaxScrollTop))

\* the watcher of containerRef has no change to report (or is stopped)
WatcherIdle == phase = "unmounted" \/ watchOld = containerRef

\* ------------------------------------------------------------ handlers
\* (mutation of onScroll: without the guard on containerRef.value, a missing
\* surface reads as offset 0)
onScrollNoGuard(els) == IF containerRef # Null THEN els[containerRef] ELSE 0

\* onScroll(): the new value of scrollTop, given the surfaces' scroll offsets
onScroll(els) == IF containerRef # Null THEN els[containerRef] ELSE scrollTop

\* onResize(): the new value of containerHeight, given the surfaces' sizes
onResize(hts) == IF containerRef # Null THEN hts[containerRef] ELSE containerHeight

\* (mutation of ScrollOffsetOf: the index clamped to the last item)
ScrollOffsetOfClamped(index) == Min(index, Len(items) - 1) * itemHeight

\* the offset scrollToIndex(index) assigns to containerRef.value.scrollTop
ScrollOffsetOf(index) == index * itemHeight

\* (mutation of scrollToIndex: without a bound surface, the surface last
\* seen by the watcher is scrolled)
scrollToIndexLastSurface(index) ==
    LET el == IF containerRef # Null THEN containerRef ELSE watchOld
    IN /\ IF el # Null
            THEN LET v == ElSetScrollTop(ScrollOffsetOf(index))
                 IN /\ elScrollTop' = [elScrollTop EXCEPT ![el] = v]
                    /\ scrollEvents' = IF v # elScrollTop[el]
                                         THEN scrollEvents \cup {el}
                                         ELSE scrollEvents
            ELSE UNCHANGED <<elScrollTop, scrollEvents>>
       /\ UNCHANGED <<config, containerRef, scrollTop, containerHeight, phase, watchOld,
                      elClientHeight, scrollListeners, resizeListener>>

scrollToIndex(index) ==
    /\ IF containerRef # Null
         THEN LET v == ElSetScrollTop(ScrollOffsetOf(index))
              IN /\ elScrollTop' = [elScrollTop EXCEPT ![containerRef] = v]
                 \* the browser queues a scroll event when the position changed
                 /\ scrollEvents' = IF v # elScrollTop[containerRef]
                                      THEN scrollEvents \cup {containerRef}
                                      ELSE scrollEvents
         ELSE UNCHANGED <<elScrollTop, scrollEvents>>
    /\ UNCHANGED <<config, containerRef, scrollTop, containerHeight, phase, watchOld,
                   elClientHeight, scrollListeners, resizeListener>>

ScrollToIndex == \E index \in Indexes : scrollToIndex(index)

\* onMounted
Mount ==
    /\ phase = "setup"
    /\ phase' = "mounted"
    /\ IF containerRef # Null
         THEN /\ containerHeight' = elClientHeight[containerRef]
              /\ scrollListeners' = scrollListeners \cup {containerRef}
              /\ resizeListener' = TRUE
         ELSE UNCHANGED <<containerHeight, scrollListeners, resizeListener>>
    /\ UNCHANGED <<config, containerRef, scrollTop, watchOld, elScrollTop,
                   elClientHeight, scrollEvents>>

\* onUnmounted; the watcher created in setup stops with the component
Unmount ==
    /\ phase = "mounted"
    /\ phase' = "unmounted"
    /\ IF containerRef # Null
         THEN /\ scrollListeners' = scrollListeners \ {containerRef}
              /\ resizeListener' = FALSE
         ELSE UNCHANGED <<scrollListeners, resizeListener>>
    /\ UNCHANGED <<config, containerRef, scrollTop, containerHeight, watchOld,
                   elScrollTop, elClientHeight, scrollEvents>>

\* the caller (or the template ref) assigns containerRef.value
SetContainerRef(el) ==
    /\ el # containerRef
    /\ containerRef' = el
    /\ UNCHANGED <<config, scrollTop, containerHeight, phase, watchOld, elScrollTop,
                   elClientHeight, scrollListeners, resizeListener, scrollEvents>>

\* (mutation of watchCallback: the old surface keeps its listener)
watchCallbackNoRemove(newEl, oldEl) ==
    /\ scrollListeners' = IF newEl # Null THEN scrollListeners \cup {newEl}
                                           ELSE scrollListeners
    /\ containerHeight' = IF newEl # Null THEN elClientHeight[newEl]
                                          ELSE containerHeight

\* the callback of watch(containerRef), for newEl and oldEl
watchCallback(newEl, oldEl) ==
    /\ scrollListeners' =
          LET removed == IF oldEl # Null THEN scrollListeners \ {oldEl}
                                         ELSE scrollListeners
          IN IF newEl # Null THEN removed \cup {newEl} ELSE removed
    /\ containerHeight' = IF newEl # Null THEN elClientHeight[newEl]
                                          ELSE containerHeight

\* the scheduler runs the watcher: the callback is called when the value
\* differs from the one last seen; a stopped watcher does nothing
WatchFlush ==
    /\ phase # "unmounted"
    /\ watchOld # containerRef
    /\ watchCallback(containerRef, watchOld)
    /\ watchOld' = containerRef
    /\ UNCHANGED <<config, containerRef, scrollTop, phase, elScrollTop,
                   elClientHeight, resizeListener, scrollEvents>>

\* ------------------------------------------------------------ the environment
\* the user scrolls surface el to offset v; the browser queues a scroll event
UserScroll(el, v) ==
    /\ v # elScrollTop[el]
    /\ elScrollTop' = [elScrollTop EXCEPT ![el] = v]
    /\ scrollEvents' = scrollEvents \cup {el}
    /\ UNCHANGED <<config, containerRef, scrollTop, containerHeight, phase, watchOld,
                   elClientHeight, scrollListeners, resizeListener>>

\* the browser dispatches the scroll event queued on el (events are tasks:
\* the watcher, a microtask job, has run by then)
DeliverScroll(el) ==
    /\ el \in scrollEvents
    /\ WatcherIdle
    /\ scrollEvents' = scrollEvents \ {el}
    /\ scrollTop' = IF el \in scrollListeners THEN onScroll(elScrollTop) ELSE scrollTop
    /\ UNCHANGED <<config, containerRef, containerHeight, phase, watchOld, elScrollTop,
                   elClientHeight, scrollListeners, resizeListener>>

\* (mutation of WindowResize: onResize stores the height in scrollTop)
WindowResizeIntoScrollTop(el, h) ==
    LET hts == [elClientHeight EXCEPT ![el] = h]
    IN /\ h # elClientHeight[el]
       /\ WatcherIdle
       /\ elClientHeight' = hts
       /\ scrollTop' = IF resizeListener THEN onResize(hts) ELSE scrollTop
       /\ UNCHANGED <<config, containerRef, containerHeight, phase, watchOld,
                      elScrollTop, scrollListeners, resizeListener, scrollEvents>>

\* the window is resized and surface el gets height h; the browser dispatches
\* the resize event to the listeners registered on window
WindowResize(el, h) ==
    LET hts == [elClientHeight EXCEPT ![el] = h]
    IN /\ h # elClientHeight[el]
       /\ WatcherIdle
       /\ elClientHeight' = hts
       /\ containerHeight' = IF resizeListener THEN onResize(hts) ELSE containerHeight
       /\ UNCHANGED <<config, containerRef, scrollTop, phase, watchOld, elScrollTop,
                      scrollListeners, resizeListener, scrollEvents>>

\* ------------------------------------------------------------ lifecycle specification
\* the state when useVirtualScroller has returned
Init ==
    /\ items = ItemList(MaxItems)
    /\ \E c \in LifeConfigs :
          /\ itemHeight = c[1]
          /\ overscan = c[2]
    /\ containerRef \in Refs
    /\ scrollTop = 0
    /\ containerHeight = 0
    /\ phase = "setup"
    /\ watchOld = containerRef
    /\ elScrollTop \in [Surfaces -> ScrollTops]
    /\ elClientHeight \in [Surfaces -> ClientHeights]
    /\ scrollListeners = {}
    /\ resizeListener = FALSE
    /\ scrollEvents = {}

ChangeRef == \E el \in Refs : SetContainerRef(el)
Scroll == \E el \in Surfaces, v \in ScrollTops : UserScroll(el, v)
ScrollEvent == \E el \in Surfaces : DeliverScroll(el)
Resize == \E el \in Surfaces, h \in ClientHeights : WindowResize(el, h)

Next ==
    \/ Mount
    \/ Unmount
    \/ ChangeRef
    \/ WatchFlush
    \/ ScrollToIndex
    \/ Scroll
    \/ ScrollEvent
    \/ Resize

Spec == Init /\ [][Next]_vars

\* ------------------------------------------------------------ construction specification
\* useVirtualScroller takes any number as itemHeight: no option is checked
\* before the refs, the computed values, the hooks and the watcher are set up
ItemHeights == (-1)..1

ConstructInit ==
    /\ items = ItemList(MaxItems)
    /\ itemHeight \in ItemHeights
    /\ overscan = 0
    /\ containerRef \in Refs
    /\ scrollTop = 0
    /\ containerHeight = 0
    /\ phase = "setup"
    /\ watchOld = containerRef
    /\ elScrollTop \in [Surfaces -> ScrollTops]
    /\ elClientHeight \in [Surfaces -> ClientHeights]
    /\ scrollListeners = {}
    /\ resizeListener = FALSE
    /\ scrollEvents = {}

ConstructSpec == ConstructInit /\ [][Next]_vars

\* ------------------------------------------------------------ windowing specification
\* a mounted scroller attached to surface "A"; every scroll and resize
\* notification is delivered as soon as the surface changes
ScrollNotification(v) ==
    LET els == [elScrollTop EXCEPT !["A"] = v]
    IN /\ v # elScrollTop["A"]
       /\ elScrollTop' = els
       /\ scrollTop' = onScroll(els)
       /\ UNCHANGED <<config, containerRef, containerHeight, phase, watchOld,
                      elClientHeight, scrollListeners, resizeListener, scrollEvents>>

WindowInit ==
    /\ \E c \in WindowConfigs :
          /\ items = ItemList(c[1])
          /\ itemHeight = c[2]
          /\ overscan = c[3]
    /\ containerRef = "A"
    /\ scrollTop = 0
    /\ phase = "mounted"
    /\ watchOld = "A"
    /\ elScrollTop = [el \in Surfaces |-> 0]
    /\ elClientHeight = [el \in Surfaces |-> 0]
    /\ containerHeight = 0
    /\ scrollListeners = {"A"}
    /\ resizeListener = TRUE
    /\ scrollEvents = {}

ScrollNotify == \E v \in WindowOffsets : ScrollNotification(v)
ResizeNotify == \E h \in WindowHeights : WindowResize("A", h)

WindowNext == ScrollNotify \/ ResizeNotify

WindowSpec == WindowInit /\ [][WindowNext]_vars

\* ------------------------------------------------------------ properties
\* the held state and the window agree with WindowAt
WindowAtAgrees == Window = WindowAt(scrollTop, containerHeight)

TypeOK ==
    /\ itemHeight \in Nat \ {0}
    /\ overscan \in Nat
    /\ containerRef \in Refs
    /\ watchOld \in Refs
    /\ scrollTop \in Nat
    /\ containerHeight \in Nat
    /\ phase \in {"setup", "mounted", "unmounted"}
    /\ scrollListeners \subseteq Surfaces
    /\ scrollEvents \subseteq Surfaces
    /\ resizeListener \in BOOLEAN

\* C1: in every reachable state the window satisfies
\* 0 <= startIndex <= endIndex <= itemCount, also for an empty list and for a
\* viewport of size 0.
C1_WindowBounded ==
    /\ 0 <= startIndex
    /\ startIndex <= endIndex
    /\ endIndex <= Len(items)

\* C2: in every reachable state the two paddings and the height of the index
\* range add up to the height of the whole list.
C2_TotalSpacePreserved ==
    paddingTop + (endIndex - startIndex) * itemHeight + paddingBottom
        = Len(items) * itemHeight

\* a window strictly inside the list: items are left out above and below
C2_Witness ==
    /\ startIndex > 0
    /\ endIndex > startIndex
    /\ endIndex < Len(items)
    /\ paddingTop > 0
    /\ paddingBottom > 0

\* the reference algorithm, by the defining inequalities of ceil and floor
RefCeil(a, b) == CHOOSE n \in 0..a : n * b >= a /\ (n - 1) * b < a
RefFloor(a, b) == CHOOSE q \in 0..a : q * b <= a /\ a < (q + 1) * b

Scenario(n, h, vp, o, so) ==
    /\ Len(items) = n
    /\ itemHeight = h
    /\ containerHeight = vp
    /\ overscan = o
    /\ scrollTop = so

\* C3: the computed window equals the reference algorithm
\* (visibleCount = ceil(viewportSize / itemHeight), startIndex =
\* max(0, floor(scrollOffset / itemHeight) - overscan), endIndex =
\* min(itemCount, startIndex + visibleCount + 2 * overscan), paddingTop =
\* startIndex * itemHeight, paddingBottom = (itemCount - endIndex) * itemHeight),
\* and the three documented scenarios give the documented numbers.
C3_MatchesReference ==
    LET vc == RefCeil(containerHeight, itemHeight)
        raw == RefFloor(scrollTop, itemHeight) - overscan
        si == IF raw > 0 THEN raw ELSE 0
        ei == IF si + vc + 2 * overscan < Len(items) THEN si + vc + 2 * overscan
                                                      ELSE Len(items)
    IN /\ visibleCount = vc
       /\ startIndex = si
       /\ endIndex = ei
       /\ paddingTop = si * itemHeight
       /\ paddingBottom = (Len(items) - ei) * itemHeight
       /\ Scenario(100, 20, 200, 1, 0) =>
             /\ visibleCount = 10
             /\ startIndex = 0
             /\ endIndex = 12
             /\ paddingTop = 0
             /\ paddingBottom = 1760
       /\ Scenario(100, 20, 200, 1, 400) =>
             /\ startIndex = 19
             /\ endIndex = 31
             /\ paddingTop = 380
             /\ paddingBottom = 1380
       /\ Scenario(5, 20, 500, 2, 0) =>
             /\ endIndex = 5
             /\ paddingBottom = 0

\* the second documented scenario, with its window
C3_Witness == Scenario(100, 20, 200, 1, 400) /\ startIndex = 19 /\ endIndex = 31

\* C4: in every reachable state visibleItems is the half-open slice
\* items[startIndex : endIndex]: endIndex - startIndex elements, the k-th
\* being items[startIndex + k] (k from 0).
C4_VisibleItemsIsSlice ==
    /\ Len(visibleItems) = endIndex - startIndex
    /\ \A k \in 0..(Len(visibleItems) - 1) :
          /\ startIndex + k < Len(items)
          /\ visibleItems[k + 1] = items[startIndex + k + 1]

\* C5: after unmount no listener registered by the composable remains: no
\* scroll listener on any surface, no resize listener on window.
C5_NoListenerAfterUnmount ==
    phase = "unmounted" => (scrollListeners = {} /\ ~resizeListener)

\* a step in which the watcher handles a change of containerRef from one
\* surface to another
ReattachStep ==
    /\ watchOld \in Surfaces
    /\ watchOld' \in Surfaces
    /\ watchOld' # watchOld

AttachStep ==
    \/ phase = "setup" /\ phase' = "mounted" /\ containerRef \in Surfaces
    \/ watchOld' # watchOld /\ watchOld' \in Surfaces

\* C7: immediately after attach the window returned to the caller is the
\* window of the surface's current size and scroll offset.
C7_FirstWindowCorrect ==
    [][AttachStep =>
          Window' = WindowAt(elScrollTop'[containerRef'], elClientHeight'[containerRef'])]_vars

\* C8: scrollToIndex(index) with a surface bound assigns index * itemHeight
\* to the surface's scrollTop, unclamped by the scroller, for every index
\* (negative, or beyond the list): the surface ends at that offset brought
\* into its own scroll range.
C8_ScrollToIndexOffset ==
    [][(containerRef # Null /\ elScrollTop' # elScrollTop) =>
          \A index \in Indexes :
              scrollToIndex(index) =>
                  LET v == index * itemHeight
                  IN /\ elScrollTop'[containerRef] =
                           (IF v < 0 THEN 0 ELSE IF v > MaxScrollTop THEN MaxScrollTop ELSE v)
                     /\ \A el \in Surfaces \ {containerRef} :
                           elScrollTop'[el] = elScrollTop[el]]_vars

\* the bound surface was scrolled past the last item (index = itemCount)
C8_Witness ==
    /\ containerRef \in Surfaces
    /\ scrollTop = 0
    /\ itemHeight * Len(items) > 0
    /\ elScrollTop[containerRef] = Len(items) * itemHeight
    /\ containerRef \in scrollEvents

\* C9: scrollToIndex(index) with no surface bound changes nothing, and no
\* step that mounts, rebinds containerRef or runs the watcher sets a
\* surface's scroll offset (the request was not queued).
C9_NoSurfaceNoOp ==
    [][/\ \A index \in Indexes :
             (containerRef = Null /\ scrollToIndex(index)) => UNCHANGED vars
       /\ (phase' # phase \/ containerRef' # containerRef \/ watchOld' # watchOld) =>
             UNCHANGED <<elScrollTop, scrollEvents>>]_vars

\* a mounted scroller that lost its surface: scrollToIndex finds none
C9_Witness ==
    /\ phase = "mounted"
    /\ containerRef = Null
    /\ watchOld = Null
    /\ resizeListener
    /\ scrollListeners = {}
    /\ \E el \in Surfaces : elScrollTop[el] # MaxScrollTop

\* a surface is attached: mounted, bound, its scroll listener registered
Attached ==
    /\ phase = "mounted"
    /\ containerRef \in Surfaces
    /\ watchOld = containerRef
    /\ containerRef \in scrollListeners

\* C10: when the attached surface is at offset index * itemHeight (where
\* scrollToIndex(index) puts it, 0 <= index, the offset in its scroll range)
\* and no scroll notification is outstanding, the held scroll offset is
\* index * itemHeight, startIndex is max(0, index - overscan), and for
\* viewportSize > 0 and index < itemCount item index is in visibleItems.
C10_ScrollToIndexShowsItem ==
    \A index \in Indexes :
        ( /\ Attached
          /\ 0 <= index
          /\ index * itemHeight <= MaxScrollTop
          /\ elScrollTop[containerRef] = index * itemHeight
          /\ containerRef \notin scrollEvents ) =>
        /\ scrollTop = index * itemHeight
        /\ startIndex = Max(0, index - overscan)
        /\ (containerHeight > 0 /\ index < Len(items)) =>
              \E k \in 1..Len(visibleItems) : visibleItems[k] = items[index + 1]

\* C11: a scroller constructed with itemHeight <= 0 is rejected: every
\* scroller that exists (in any phase) has itemHeight > 0, so no computed
\* value divides by a zero or negative item height.
C11_ItemHeightPositive == itemHeight > 0

\* C12: with an empty list, startIndex = endIndex = paddingTop =
\* paddingBottom = 0 and visibleItems is empty, in every reachable state.
C12_EmptyListAllZero ==
    Len(items) = 0 =>
        /\ startIndex = 0
        /\ endIndex = 0
        /\ paddingTop = 0
        /\ paddingBottom = 0
        /\ visibleItems = << >>

\* C13: startIndex is monotone in the scroll offset: a scroll notification
\* with an offset that is not smaller (the options, the list and the
\* viewport size unchanged) does not decrease startIndex; every pair of
\* offsets s1 <= s2 is one such step.
C13_StartIndexMonotone ==
    [][(scrollTop' >= scrollTop /\ containerHeight' = containerHeight) =>
          startIndex' >= startIndex]_vars

\* scrolled down far enough for startIndex to have grown past the overscan
C13_Witness ==
    /\ overscan > 0
    /\ scrollTop > overscan * itemHeight
    /\ startIndex > 0
    /\ startIndex = Floor(scrollTop, itemHeight) - overscan

\* the scroller has been constructed and not yet mounted, over a non-empty
\* list and a surface of positive height that is scrolled to the top
FreshOverSizedSurface ==
    /\ phase = "setup"
    /\ Len(items) > 0
    /\ itemHeight > 0
    /\ overscan >= 0
    /\ containerRef \in Surfaces
    /\ elClientHeight[containerRef] > 0
    /\ elScrollTop[containerRef] = 0

UnmeasuredWindow ==
    /\ visibleCount = 0
    /\ startIndex = Max(0, RefFloor(scrollTop, itemHeight) - overscan)

\* C15: a resize notification (the surface's height changes and onResize
\* runs, also from 0 to a positive height) leaves the held scroll offset,
\* startIndex and paddingTop unchanged; while the held viewport size is 0,
\* visibleCount is 0 and startIndex is max(0, floor(scrollTop / itemHeight)
\* - overscan).
C15_ResizeKeepsWindowStart ==
    [][/\ elClientHeight' # elClientHeight =>
            /\ scrollTop' = scrollTop
            /\ startIndex' = startIndex
            /\ paddingTop' = paddingTop
            /\ containerHeight' = elClientHeight'["A"]
       /\ containerHeight = 0 => UnmeasuredWindow
       /\ containerHeight' = 0 => UnmeasuredWindow']_vars

\* a scrolled window whose viewport has been measured
C15_Witness ==
    /\ containerHeight > 0
    /\ containerHeight = elClientHeight["A"]
    /\ scrollTop >= itemHeight * (overscan + 1)
    /\ startIndex > 0
    /\ paddingTop > 0

\* the surfaces whose queued scroll event is dispatched by this step
Dispatched == scrollEvents \ scrollEvents'

\* a step that dispatches a queued scroll event
ScrollDelivery == scrollEvents' # scrollEvents /\ elScrollTop' = elScrollTop

\* C16: scroll notifications are last-write-wins and idempotent: a scroll
\* notification that reaches a listener while a surface is attached leaves
\* the held scrollTop equal to that surface's scroll offset at that moment
\* (so the same notification delivered again changes nothing), and no
\* scroll notification changes the held containerHeight; while
\* containerRef holds no surface, a scroll or a resize notification changes
\* neither scrollTop nor containerHeight.
C16_ScrollLastWriteWins ==
    [][/\ ScrollDelivery =>
            /\ containerHeight' = containerHeight
            /\ (containerRef # Null /\ Dispatched \cap scrollListeners # {}) =>
                   /\ scrollTop' = elScrollTop[containerRef]
                   /\ scrollTop' = elScrollTop'[containerRef']
            /\ containerRef = Null => scrollTop' = scrollTop
       /\ (elClientHeight' # elClientHeight /\ containerRef = Null) =>
            /\ scrollTop' = scrollTop
            /\ containerHeight' = containerHeight]_vars

\* the attached surface has been scrolled and its notification delivered
C16_Witness ==
    /\ phase = "mounted"
    /\ containerRef \in Surfaces
    /\ containerRef \in scrollListeners
    /\ scrollEvents = {}
    /\ elScrollTop[containerRef] > 0
    /\ scrollTop = elScrollTop[containerRef]

\* item i's pixel extent [i * itemHeight, (i + 1) * itemHeight) overlaps the
\* viewport [scrollTop, scrollTop + containerHeight)
InViewport(i) ==
    /\ i * itemHeight < scrollTop + containerHeight
    /\ (i + 1) * itemHeight > scrollTop

\* C17: the rendered slice covers the viewport: with itemHeight > 0,
\* overscan >= 0, containerHeight > 0 and scrollTop >= 0, every index of
\* the list whose pixel extent overlaps the viewport lies in
\* [startIndex, endIndex), also when scrollTop is not a multiple of
\* itemHeight.
C17_SliceCoversViewport ==
    (itemHeight > 0 /\ overscan >= 0 /\ containerHeight > 0 /\ scrollTop >= 0) =>
        \A i \in 0..(Len(items) - 1) :
            InViewport(i) => (startIndex <= i /\ i < endIndex)

\* C18: whenever the composable is mounted, containerRef holds a surface
\* and the watcher has run, a scroll listener is registered on that surface
\* and the resize listener is registered on window, whether the surface was
\* bound at mount or by a later change of containerRef.
C18_BoundSurfaceListens ==
    (phase = "mounted" /\ containerRef \in Surfaces /\ watchOld = containerRef) =>
        /\ containerRef \in scrollListeners
        /\ resizeListener

\* C19: the number of rendered items is at most visibleCount + 2 * overscan,
\* whatever the length of the list, and is exactly that whenever
\* startIndex + visibleCount + 2 * overscan <= Len(items).
C19_RenderedCountBounded ==
    /\ Len(visibleItems) <= visibleCount + 2 * overscan
    /\ startIndex + visibleCount + 2 * overscan <= Len(items) =>
           Len(visibleItems) = visibleCount + 2 * overscan

\* a scrolled, measured window that lies inside the list
C19_Witness ==
    /\ startIndex > 0
    /\ visibleCount > 0
    /\ overscan > 0
    /\ startIndex + visibleCount + 2 * overscan < Len(items)
    /\ Len(visibleItems) = visibleCount + 2 * overscan

==========================================================================
